---- MODULE Spec2Model ----
(***************************************************************************)
(* Model of core/providers/memory/mem_local_short/mem_local_short.py:      *)
(* the short-term memory provider (MemoryProvider), its JSON extraction    *)
(* helper and the YAML file store it shares with the other providers.      *)
(*                                                                         *)
(* Python strings are sequences of one-character strings, Python indexes   *)
(* are 0-based as in the source.  Line 176 of the source is indented one   *)
(* level too little; the model reads it as a statement of save_memory.     *)
(***************************************************************************)
EXTENDS Integers, Sequences, FiniteSets, TLC

\* ------------------------------------------------------------------------
\* Python values
\* ------------------------------------------------------------------------

\* Python's None where a str is expected: a sequence no str is equal to
\* (every element of a str is a single character).
None == <<"None">>

\* bool(v) for v a str or None
Truthy(v) == v # None /\ v # <<>>

\* str.find(sub, from): lowest 0-based index >= from at which sub occurs, else -1
PyFind(s, sub, from) ==
    LET hits == { i \in from .. (Len(s) - Len(sub)) :
                      SubSeq(s, i + 1, i + Len(sub)) = sub }
    IN  IF hits = {} THEN -1
        ELSE CHOOSE i \in hits : \A j \in hits : i <= j

\* s[a:b] for 0 <= a, 0 <= b
PySlice(s, a, b) ==
    LET hi == IF b > Len(s) THEN Len(s) ELSE b
    IN  IF a >= hi THEN <<>> ELSE SubSeq(s, a + 1, hi)

\* ------------------------------------------------------------------------
\* json.loads, as far as "does it raise": positions are 1-based indexes of
\* the next character to read, 0 means the decoder raised.
\* ------------------------------------------------------------------------

Whitespace == {" ", "\n", "\t", "\r"}
Control == {"\n", "\t", "\r"}
Digits == {"0", "1", "2", "3", "4", "5", "6", "7", "8", "9"}

RECURSIVE SkipWs(_, _)
SkipWs(s, p) ==
    IF p <= Len(s) /\ s[p] \in Whitespace THEN SkipWs(s, p + 1) ELSE p

\* p is the position after the opening quote; strict mode rejects control
\* characters.  The modelled alphabet has no backslash.
RECURSIVE ScanString(_, _)
ScanString(s, p) ==
    IF p > Len(s) THEN 0
    ELSE IF s[p] = "\"" THEN p + 1
    ELSE IF s[p] \in Control THEN 0
    ELSE ScanString(s, p + 1)

RECURSIVE SkipDigits(_, _)
SkipDigits(s, p) ==
    IF p <= Len(s) /\ s[p] \in Digits THEN SkipDigits(s, p + 1) ELSE p

\* an integer without leading zero; the modelled alphabet has no sign,
\* fraction or exponent
ScanNumber(s, p) ==
    IF p > Len(s) THEN 0
    ELSE IF s[p] = "0" THEN p + 1
    ELSE IF s[p] \in Digits THEN SkipDigits(s, p + 1)
    ELSE 0

ScanLiteral(s, p, lit) ==
    IF p + Len(lit) - 1 <= Len(s) /\ SubSeq(s, p, p + Len(lit) - 1) = lit
    THEN p + Len(lit) ELSE 0

RECURSIVE ScanOnce(_, _), ArrayItems(_, _), ObjectPairs(_, _)

ParseArray(s, p) ==
    LET q == SkipWs(s, p)
    IN  IF q <= Len(s) /\ s[q] = "]" THEN q + 1 ELSE ArrayItems(s, q)

ParseObject(s, p) ==
    LET q == SkipWs(s, p)
    IN  IF q > Len(s) THEN 0
        ELSE IF s[q] = "}" THEN q + 1
        ELSE IF s[q] = "\"" THEN ObjectPairs(s, q + 1)
        ELSE 0

ScanOnce(s, p) ==
    IF p > Len(s) THEN 0
    ELSE IF s[p] = "\"" THEN ScanString(s, p + 1)
    ELSE IF s[p] = "{" THEN ParseObject(s, p + 1)
    ELSE IF s[p] = "[" THEN ParseArray(s, p + 1)
    ELSE IF s[p] = "n" THEN ScanLiteral(s, p, <<"n", "u", "l", "l">>)
    ELSE IF s[p] = "t" THEN ScanLiteral(s, p, <<"t", "r", "u", "e">>)
    ELSE IF s[p] = "f" THEN ScanLiteral(s, p, <<"f", "a", "l", "s", "e">>)
    ELSE ScanNumber(s, p)

ArrayItems(s, p) ==
    LET e == ScanOnce(s, p)
    IN  IF e = 0 THEN 0
        ELSE LET q == SkipWs(s, e)
             IN  IF q > Len(s) THEN 0
                 ELSE IF s[q] = "]" THEN q + 1
                 ELSE IF s[q] = "," THEN ArrayItems(s, SkipWs(s, q + 1))
                 ELSE 0

\* p is the position after the opening quote of a key
ObjectPairs(s, p) ==
    LET k == ScanString(s, p)
        c == SkipWs(s, k)
        v == ScanOnce(s, SkipWs(s, c + 1))
        q == SkipWs(s, v)
        r == SkipWs(s, q + 1)
    IN  IF k = 0 THEN 0
        ELSE IF c > Len(s) \/ s[c] # ":" THEN 0
        ELSE IF v = 0 THEN 0
        ELSE IF q > Len(s) THEN 0
        ELSE IF s[q] = "}" THEN q + 1
        ELSE IF s[q] # "," THEN 0
        ELSE IF r <= Len(s) /\ s[r] = "\"" THEN ObjectPairs(s, r + 1)
        ELSE 0

\* TRUE iff json.loads(s) returns; FALSE iff it raises
json_loads(s) ==
    /\ s # None
    /\ LET e == ScanOnce(s, SkipWs(s, 1))
       IN  e # 0 /\ SkipWs(s, e) = Len(s) + 1

\* ------------------------------------------------------------------------
\* extract_json_data
\* ------------------------------------------------------------------------

\* The backquote character (U+0060) cannot be written in a TLA+ string; the
\* character "~", which no modelled string otherwise contains, stands for it.
BACKQUOTE == "~"

FENCE == <<BACKQUOTE, BACKQUOTE, BACKQUOTE>>
JSONFENCE == FENCE \o <<"j", "s", "o", "n">>

extract_json_data(json_code) ==
    LET start == PyFind(json_code, JSONFENCE, 0)
        end   == PyFind(json_code, FENCE, start + 1)
    IN  IF start = -1 \/ end = -1
        THEN IF json_loads(json_code) THEN json_code ELSE <<>>
        ELSE PySlice(json_code, start + 7, end)

\* ------------------------------------------------------------------------
\* Bounds and input sets
\* ------------------------------------------------------------------------

\* len(msgs) ranges over 0 .. MaxTurns
MaxTurns == 2

\* provider instances sharing one memory file
Insts == {"u1", "u2"}

\* the provider whose methods are called one at a time; a provider shares
\* nothing with another but the memory file, and __init__ may put a fresh
\* provider in its place
Callers == {"u1"}

\* role identifiers, in the order yaml.dump sorts its keys
RoleOrder == <<"A", "B">>
Roles == {RoleOrder[j] : j \in 1 .. Len(RoleOrder)}

\* the role_id and llm of a provider that init_memory has not bound yet
NoRole == "None"
NoLLM == "None"
LLMs == {"llm", "llm_badkey"}

\* getattr(self.llm, "api_key", None)
api_key(l) ==
    IF l = "llm" THEN "key" ELSE IF l = "llm_badkey" THEN "badkey" ELSE "None"

\* check_model_key(label, api_key): a description of the problem, or None
check_model_key(modelType, modelKey) ==
    IF modelKey = "badkey" THEN "malformed key" ELSE "None"

Mem0 == <<"[", "0", "]">>
Mem1 == <<"[", "1", "]">>
MemFenced == <<"\n">> \o Mem1 \o <<"\n">>
QUOTE == <<"\"">>

RespBare0 == Mem0
RespFenced == JSONFENCE \o MemFenced \o FENCE
RespPlainFence == FENCE \o Mem1 \o FENCE
RespText == <<"n", "o">>
RespFencedText == <<"s", "o", " ">> \o JSONFENCE \o <<"n", "o">> \o FENCE
RespQuotedFence == QUOTE \o JSONFENCE \o FENCE \o QUOTE

\* what llm.response_no_stream may return
Responses ==
    {RespBare0, RespFenced, RespPlainFence, RespText, RespFencedText,
     RespQuotedFence}

\* the summary_memory argument of __init__ and init_memory
Summaries == {None, <<>>, Mem0}

\* the query argument of query_memory
Queries == {<<>>, Mem1, <<"1">>}

\* ------------------------------------------------------------------------
\* The memory file (data/.memory.yaml)
\* ------------------------------------------------------------------------

EmptyDict == [k \in {} |-> None]

DictSet(d, k, v) == [x \in (DOMAIN d) \cup {k} |-> IF x = k THEN v ELSE d[x]]

\* yaml.dump of a dict of str: one (key, scalar) entry per key, keys sorted
yaml_dump(d) ==
    LET keys == SelectSeq(RoleOrder, LAMBDA k : k \in DOMAIN d)
    IN  [j \in 1 .. Len(keys) |-> <<keys[j], d[keys[j]]>>]

\* yaml.safe_load(f) or {}
yaml_safe_load(doc) ==
    [k \in {doc[j][1] : j \in 1 .. Len(doc)} |->
        LET j == CHOOSE n \in 1 .. Len(doc) : doc[n][1] = k IN doc[j][2]]

NoFile == [exists |-> FALSE, doc |-> <<>>]

\* all_memory = {}; if os.path.exists(...): all_memory = yaml.safe_load(f) or {}
ReadStore(file) ==
    IF file.exists THEN yaml_safe_load(file.doc) ELSE EmptyDict

\* open(..., "w"); yaml.dump(all_memory, f)
WriteStore(all) == [exists |-> TRUE, doc |-> yaml_dump(all)]

\* the entry the file holds for a role, None when it has none
Entry(file, role) ==
    LET all == ReadStore(file)
    IN  IF role \in DOMAIN all THEN all[role] ELSE None

\* slip: the file is rewritten from an empty all_memory
save_memory_to_file_fresh(file, role, memory) ==
    WriteStore(DictSet(EmptyDict, role, memory))

save_memory_to_file(file, role, memory) ==
    WriteStore(DictSet(ReadStore(file), role, memory))

\* slip: the file is never consulted
load_memory_nofile(cur, stf, role, file, summary_memory) ==
    IF Truthy(summary_memory) \/ ~stf THEN summary_memory ELSE cur

\* the value load_memory leaves in self.short_memory
load_memory(cur, stf, role, file, summary_memory) ==
    IF Truthy(summary_memory) \/ ~stf
    THEN summary_memory
    ELSE LET all_memory == ReadStore(file)
         IN  IF role \in DOMAIN all_memory THEN all_memory[role] ELSE cur

\* MemoryProviderBase.__init__: role_id = None, llm = None
BaseInit == [role_id |-> NoRole, llm |-> NoLLM]

\* ------------------------------------------------------------------------
\* State
\* ------------------------------------------------------------------------

VARIABLES
    role_id,       \* self.role_id of each provider
    llm,           \* self.llm
    save_to_file,  \* self.save_to_file
    short_memory,  \* self.short_memory
    memory_file,   \* the file at self.memory_path
    pc,            \* where each provider is inside save_memory
    all_memory,    \* the local all_memory of a save_memory_to_file in progress
    saved,         \* per role, the memory of the last completed file save
    last           \* the most recent call: arguments, result, outgoing calls

vars == <<role_id, llm, save_to_file, short_memory, memory_file, pc,
          all_memory, saved, last>>

\* what is seen of a call from outside: its arguments (turns = len(msgs);
\* arg = summary_memory or query; response = what the LLM answered, None if
\* it was not asked), whether it bound a provider that had never been bound,
\* its return value, the calls it made to the LLM and to the remote save
\* API (save_mem_local_short), and how many errors it logged
Call(op, i, turns, arg, fresh, response, ret, llm_calls, remote_calls, errors) ==
    [op |-> op, inst |-> i, turns |-> turns, arg |-> arg, fresh |-> fresh,
     response |-> response, ret |-> ret, llm_calls |-> llm_calls,
     remote_calls |-> remote_calls, errors |-> errors]

\* files other providers may have left behind
InitialFiles ==
    {NoFile, WriteStore(EmptyDict)}
        \cup {WriteStore(DictSet(EmptyDict, r, Mem0)) : r \in Roles}

\* every provider has run __init__(config, summary_memory)
Init ==
    /\ memory_file \in InitialFiles
    /\ role_id = [i \in Insts |-> BaseInit.role_id]
    /\ llm = [i \in Insts |-> BaseInit.llm]
    /\ save_to_file = [i \in Insts |-> TRUE]
    /\ \E sm \in [Insts -> Summaries] :
          short_memory =
              [i \in Insts |->
                  load_memory(<<>>, TRUE, BaseInit.role_id, memory_file, sm[i])]
    /\ pc = [i \in Insts |-> "idle"]
    /\ all_memory = [i \in Insts |-> EmptyDict]
    /\ saved = [r \in Roles |-> None]
    /\ last = Call("none", "u1", 0, None, FALSE, None, None, 0, <<>>, 0)

\* ------------------------------------------------------------------------
\* Operations
\* ------------------------------------------------------------------------

\* __init__: a fresh provider takes the place of provider i
Construct(i, summary_memory) ==
    /\ pc[i] = "idle"
    /\ role_id' = [role_id EXCEPT ![i] = BaseInit.role_id]
    /\ llm' = [llm EXCEPT ![i] = BaseInit.llm]
    /\ save_to_file' = [save_to_file EXCEPT ![i] = TRUE]
    /\ short_memory' = [short_memory EXCEPT ![i] =
           load_memory(<<>>, TRUE, BaseInit.role_id, memory_file, summary_memory)]
    /\ last' = Call("construct", i, 0, summary_memory, FALSE, None, None, 0,
                    <<>>, 0)
    /\ UNCHANGED <<memory_file, pc, all_memory, saved>>

\* init_memory(role_id, llm, summary_memory, save_to_file); the base class
\* stores role_id and llm
InitMemory(i, role, l, summary_memory, stf) ==
    /\ pc[i] = "idle"
    /\ role_id' = [role_id EXCEPT ![i] = role]
    /\ llm' = [llm EXCEPT ![i] = l]
    /\ save_to_file' = [save_to_file EXCEPT ![i] = stf]
    /\ short_memory' = [short_memory EXCEPT ![i] =
           load_memory(short_memory[i], stf, role, memory_file, summary_memory)]
    /\ last' = Call("init", i, 0, summary_memory, role_id[i] = NoRole, None,
                    None, 0, <<>>, 0)
    /\ UNCHANGED <<memory_file, pc, all_memory, saved>>

\* slip: the missing LLM goes unnoticed
llm_unset_never(l) == FALSE

\* logger.error calls of save_memory before the LLM check
key_errors(i) ==
    IF check_model_key("memory LLM", api_key(llm[i])) # "None" THEN 1 ELSE 0

\* if self.llm is None: return None
llm_unset(l) == l = NoLLM

\* slip: one turn is taken to be enough
too_few_turns_one(turns) == turns < 1

\* if len(msgs) < 2: return None
too_few_turns(turns) == turns < 2

\* slip: the extracted text is adopted without being parsed
accepted_any(json_str) == TRUE

\* try: json.loads(json_str) ... except Exception: print
accepted(json_str) == json_loads(json_str)

\* save_memory returning None before the LLM is asked
SaveSkipped(i, turns) ==
    /\ last' = Call("save", i, turns, None, FALSE, None, None, 0, <<>>,
                    key_errors(i) + (IF llm_unset(llm[i]) THEN 1 ELSE 0))
    /\ UNCHANGED <<short_memory, memory_file, saved, pc, all_memory>>

\* save_memory, structured mode, the response rejected
SaveRejected(i, turns, result) ==
    /\ last' = Call("save", i, turns, None, FALSE, result, short_memory[i], 1,
                    <<>>, key_errors(i))
    /\ UNCHANGED <<short_memory, memory_file, saved, pc, all_memory>>

\* save_memory, structured mode, the response accepted
SaveAccepted(i, turns, result, json_str) ==
    /\ short_memory' = [short_memory EXCEPT ![i] = json_str]
    /\ memory_file' = save_memory_to_file(memory_file, role_id[i], json_str)
    /\ saved' = [saved EXCEPT ![role_id[i]] = json_str]
    /\ last' = Call("save", i, turns, None, FALSE, result, json_str, 1, <<>>,
                    key_errors(i))
    /\ UNCHANGED <<pc, all_memory>>

\* slip: content-only mode also caches the response
SaveContentOnly_cached(i, turns, result) ==
    /\ short_memory' = [short_memory EXCEPT ![i] = result]
    /\ last' = Call("save", i, turns, None, FALSE, result, short_memory[i], 1,
                    << <<role_id[i], result>> >>, key_errors(i))
    /\ UNCHANGED <<memory_file, saved, pc, all_memory>>

\* save_memory, content-only mode
SaveContentOnly(i, turns, result) ==
    /\ last' = Call("save", i, turns, None, FALSE, result, short_memory[i], 1,
                    << <<role_id[i], result>> >>, key_errors(i))
    /\ UNCHANGED <<short_memory, memory_file, saved, pc, all_memory>>

\* save_memory(msgs), run to completion; turns is len(msgs) and result is
\* what the LLM answers if it is asked.  The prompt built from msgs, the
\* cached memory and the clock only reaches the LLM.
SaveMemory(i, turns, result) ==
    /\ pc[i] = "idle"
    /\ IF llm_unset(llm[i]) \/ too_few_turns(turns)
       THEN SaveSkipped(i, turns)
       ELSE IF save_to_file[i]
       THEN IF accepted(extract_json_data(result))
            THEN SaveAccepted(i, turns, result, extract_json_data(result))
            ELSE SaveRejected(i, turns, result)
       ELSE SaveContentOnly(i, turns, result)
    /\ UNCHANGED <<role_id, llm, save_to_file>>

\* slip: the query is answered with itself
QueryMemory_echo(i, query) ==
    /\ pc[i] = "idle"
    /\ last' = Call("query", i, 0, query, FALSE, None, query, 0, <<>>, 0)
    /\ UNCHANGED <<role_id, llm, save_to_file, short_memory, memory_file, pc,
                   all_memory, saved>>

\* query_memory(query)
QueryMemory(i, query) ==
    /\ pc[i] = "idle"
    /\ last' = Call("query", i, 0, query, FALSE, None, short_memory[i], 0, <<>>,
                    0)
    /\ UNCHANGED <<role_id, llm, save_to_file, short_memory, memory_file, pc,
                   all_memory, saved>>

Next ==
    \E i \in Callers :
        \/ \E s \in Summaries : Construct(i, s)
        \/ \E r \in Roles, l \in LLMs \cup {NoLLM}, s \in Summaries,
              stf \in BOOLEAN : InitMemory(i, r, l, s, stf)
        \/ \E t \in 0 .. MaxTurns, res \in Responses : SaveMemory(i, t, res)
        \/ \E q \in Queries : QueryMemory(i, q)

\* calls made one at a time, each running to completion
Spec == Init /\ [][Next]_vars

\* ------------------------------------------------------------------------
\* Providers in different threads: save_memory_to_file of one provider
\* interleaves with the others' between its read and its write of the file.
\* Callers keep at most one save_memory in flight per role.
\* ------------------------------------------------------------------------

RoleIdle(i) == \A j \in Insts \ {i} : pc[j] # "idle" => role_id[j] # role_id[i]

\* save_memory up to the call of save_memory_to_file
SaveBegin(i, turns, result) ==
    /\ pc[i] = "idle"
    /\ RoleIdle(i)
    /\ ~llm_unset(llm[i])
    /\ ~too_few_turns(turns)
    /\ save_to_file[i]
    /\ accepted(extract_json_data(result))
    /\ short_memory' = [short_memory EXCEPT ![i] = extract_json_data(result)]
    /\ pc' = [pc EXCEPT ![i] = "read"]
    /\ last' = Call("save_begin", i, turns, None, FALSE, result, None, 1, <<>>,
                    key_errors(i))
    /\ UNCHANGED <<role_id, llm, save_to_file, memory_file, all_memory, saved>>

\* save_memory_to_file: the file is read into all_memory
FileRead(i) ==
    /\ pc[i] = "read"
    /\ all_memory' = [all_memory EXCEPT ![i] = ReadStore(memory_file)]
    /\ pc' = [pc EXCEPT ![i] = "write"]
    /\ UNCHANGED <<role_id, llm, save_to_file, short_memory, memory_file, saved,
                   last>>

\* save_memory_to_file: the entry is set, the file rewritten; save_memory
\* returns
FileWrite(i) ==
    /\ pc[i] = "write"
    /\ memory_file' =
           WriteStore(DictSet(all_memory[i], role_id[i], short_memory[i]))
    /\ saved' = [saved EXCEPT ![role_id[i]] = short_memory[i]]
    /\ all_memory' = [all_memory EXCEPT ![i] = EmptyDict]
    /\ pc' = [pc EXCEPT ![i] = "idle"]
    /\ last' = Call("save", i, 2, None, FALSE, None, short_memory[i], 0, <<>>, 0)
    /\ UNCHANGED <<role_id, llm, save_to_file, short_memory>>

\* init_memory binding a provider to a role and an LLM in structured mode
ThreadBind(i, role, l) ==
    InitMemory(i, role, l, None, TRUE)

ThreadNext ==
    \E i \in Insts :
        \/ \E r \in Roles, l \in LLMs : ThreadBind(i, r, l)
        \/ \E t \in 0 .. MaxTurns, res \in Responses : SaveBegin(i, t, res)
        \/ FileRead(i)
        \/ FileWrite(i)

ThreadSpec == Init /\ [][ThreadNext]_vars

\* ------------------------------------------------------------------------
\* Properties
\* ------------------------------------------------------------------------

\* the step is a save_memory call by provider i that asked the LLM
AskedLLM(i) ==
    last'.op = "save" /\ last'.inst = i /\ last'.llm_calls = 1

StartsWith(s, pre) == Len(s) >= Len(pre) /\ SubSeq(s, 1, Len(pre)) = pre
EndsWith(s, suf) ==
    Len(s) >= Len(suf) /\ SubSeq(s, Len(s) - Len(suf) + 1, Len(s)) = suf

\* the text a fenced code block wraps, None if r is not one fenced block
FencedBody(r) ==
    IF ~EndsWith(r, FENCE) THEN None
    ELSE IF StartsWith(r, JSONFENCE) /\ Len(r) >= Len(JSONFENCE) + Len(FENCE)
    THEN SubSeq(r, Len(JSONFENCE) + 1, Len(r) - Len(FENCE))
    ELSE IF StartsWith(r, FENCE) /\ Len(r) >= 2 * Len(FENCE)
    THEN SubSeq(r, Len(FENCE) + 1, Len(r) - Len(FENCE))
    ELSE None

\* the JSON payload of a response that is valid JSON, bare or fenced
JsonPayload(r) ==
    IF json_loads(r) THEN r
    ELSE IF json_loads(FencedBody(r)) THEN FencedBody(r)
    ELSE None

\* C1: in structured mode, a save_memory call with an LLM bound and at
\* least 2 turns whose LLM response is valid JSON, bare or wrapped in a
\* fenced code block, leaves that JSON payload in the cache and in the
\* file under the provider's role_id, and returns it.
C1_ValidJsonAdopted ==
    [][\A i \in Insts :
          (AskedLLM(i) /\ save_to_file[i] /\ JsonPayload(last'.response) # None)
          => /\ short_memory'[i] = JsonPayload(last'.response)
             /\ Entry(memory_file', role_id[i]) = JsonPayload(last'.response)
             /\ last'.ret = JsonPayload(last'.response)]_vars

\* C2: in structured mode, a save_memory call whose LLM response does not
\* yield valid JSON leaves the cache and the file as they were and returns
\* the prior cached memory.
C2_InvalidJsonDiscarded ==
    [][\A i \in Insts :
          (AskedLLM(i) /\ save_to_file[i]
              /\ ~json_loads(extract_json_data(last'.response)))
          => /\ short_memory' = short_memory
             /\ memory_file' = memory_file
             /\ last'.ret = short_memory[i]]_vars

C2_Witness ==
    /\ last.op = "save" /\ last.llm_calls = 1 /\ save_to_file[last.inst]
    /\ last.response = RespFencedText
    /\ last.ret = MemFenced
    /\ short_memory[last.inst] = MemFenced
    /\ Entry(memory_file, role_id[last.inst]) = MemFenced

\* C3: a save_memory call by a provider bound to role A leaves the file's
\* entry of every other role as it was; it only adds or replaces A's entry.
C3_OtherRolesKept ==
    [][\A i \in Insts :
          (last'.op = "save" /\ last'.inst = i)
          => \A r \in Roles \ {role_id[i]} :
                 Entry(memory_file', r) = Entry(memory_file, r)]_vars

C3_Witness ==
    /\ last.op = "save" /\ last.llm_calls = 1 /\ save_to_file[last.inst]
    /\ Entry(memory_file, role_id[last.inst]) = last.ret
    /\ last.ret = MemFenced
    /\ \E r \in Roles \ {role_id[last.inst]} : Entry(memory_file, r) = Mem0

\* C4: in content-only mode a save_memory call changes neither the cache
\* nor the file; a call that passes the precondition checks hands
\* (role_id, raw response) to the remote save API exactly once and returns
\* the unchanged cache.
C4_ContentOnlyKeepsCache ==
    [][\A i \in Insts :
          (last'.op = "save" /\ last'.inst = i /\ ~save_to_file[i])
          => /\ short_memory' = short_memory
             /\ memory_file' = memory_file
             /\ IF llm[i] # NoLLM /\ last'.turns >= 2
                THEN /\ last'.remote_calls =
                            << <<role_id[i], last'.response>> >>
                     /\ last'.ret = short_memory[i]
                ELSE last'.remote_calls = <<>>]_vars

C4_Witness ==
    /\ last.op = "save" /\ ~save_to_file[last.inst]
    /\ last.remote_calls = << <<role_id[last.inst], RespFenced>> >>
    /\ last.ret = Mem0
    /\ short_memory[last.inst] = Mem0

\* C5: with fewer than 2 turns, in either mode, save_memory returns None,
\* asks no LLM, makes no remote save and leaves cache and file unchanged.
C5_FewTurnsNoOp ==
    [][(last'.op = "save" /\ last'.turns < 2)
          => /\ last'.ret = None
             /\ last'.llm_calls = 0
             /\ last'.remote_calls = <<>>
             /\ short_memory' = short_memory
             /\ memory_file' = memory_file]_vars

C5_Witness ==
    /\ last.op = "save" /\ last.turns = 1
    /\ llm[last.inst] # NoLLM
    /\ last.ret = None

\* C6: with no LLM bound, for any transcript and in either mode,
\* save_memory returns None and changes neither cache, file nor remote store.
C6_NoLLMNoOp ==
    [][\A i \in Insts :
          (last'.op = "save" /\ last'.inst = i /\ llm[i] = NoLLM)
          => /\ last'.ret = None
             /\ last'.llm_calls = 0
             /\ last'.remote_calls = <<>>
             /\ short_memory' = short_memory
             /\ memory_file' = memory_file]_vars

C6_Witness ==
    /\ last.op = "save" /\ last.turns >= 2 /\ last.errors = 1
    /\ llm[last.inst] = NoLLM
    /\ role_id[last.inst] # NoRole
    /\ last.ret = None

\* the call in c bound a fresh provider, file-backed, with no memory supplied
FreshFileInit(c, stf) ==
    c.op = "init" /\ c.fresh /\ stf[c.inst] /\ ~Truthy(c.arg)

\* C7: once memory M has been saved to the file for role A, a fresh
\* provider initialised file-backed for role A with no memory supplied
\* caches M, and its query_memory returns M.
C7_RoundTrip ==
    [][/\ (FreshFileInit(last', save_to_file')
              /\ saved[role_id'[last'.inst]] # None)
          => short_memory'[last'.inst] = saved[role_id'[last'.inst]]
       /\ (last'.op = "query" /\ last'.inst = last.inst
              /\ FreshFileInit(last, save_to_file)
              /\ saved[role_id[last.inst]] # None)
          => last'.ret = saved[role_id[last.inst]]]_vars

C7_Witness ==
    /\ FreshFileInit(last, save_to_file)
    /\ saved[role_id[last.inst]] = MemFenced
    /\ short_memory[last.inst] = MemFenced

\* C8: query_memory returns the cached memory whatever the query and
\* changes nothing; the cache is only ever set by an initialisation or by
\* a structured save that adopted its response.
C8_QueryReturnsCache ==
    [][/\ last'.op = "query"
          => /\ last'.ret = short_memory[last'.inst]
             /\ UNCHANGED <<role_id, llm, save_to_file, short_memory,
                            memory_file, saved>>
       /\ \A i \in Insts :
             short_memory'[i] # short_memory[i]
             => /\ last'.inst = i
                /\ \/ last'.op \in {"init", "construct"}
                   \/ /\ AskedLLM(i)
                      /\ save_to_file[i]
                      /\ json_loads(extract_json_data(last'.response))
                      /\ short_memory'[i] = extract_json_data(last'.response)]_vars

C8_Witness ==
    /\ last.op = "query" /\ last.arg = <<"1">>
    /\ last.ret = MemFenced
    /\ saved[role_id[last.inst]] = MemFenced

\* C9: after a construction or init_memory that is file-backed with no
\* memory supplied, the cache is empty if the file has no entry for the
\* role, whatever was cached before, and equals the entry if there is one.
C9_InitLoadsEntryOrEmpty ==
    [][\A i \in Insts :
          (last'.op \in {"init", "construct"} /\ last'.inst = i
              /\ save_to_file'[i] /\ ~Truthy(last'.arg))
          => short_memory'[i] =
                 IF Entry(memory_file, role_id'[i]) = None
                 THEN <<>>
                 ELSE Entry(memory_file, role_id'[i])]_vars

\* C10: with saves serialised per role, once every save has completed the
\* file's entry of every role is the last memory saved for that role.
C10_NoLostUpdate ==
    (\A i \in Insts : pc[i] = "idle")
    => \A r \in Roles : saved[r] # None => Entry(memory_file, r) = saved[r]

====
